---- MODULE Spec2Model ----
(***************************************************************************)
(* A model of the Agent base class (agency/agent.py) and of the odds       *)
(* adapter's HTTP helper (impl/pluto-ai/adapters/vegas_odds/odds_api.py).  *)
(*                                                                         *)
(* Two logical callers drive one Agent.  A coroutine without an await in   *)
(* its body (start_session, load_session) and the synchronous              *)
(* _build_personality run to completion in one step; prompt,               *)
(* reinforce_personality, run and _fetch are split at their awaits and     *)
(* yields, where the other caller may be scheduled.                        *)
(*                                                                         *)
(* Python values are tagged records; a text is a sequence of fragments, so *)
(* that an f-string is a concatenation.                                    *)
(***************************************************************************)
EXTENDS Integers, Sequences, FiniteSets, TLC

\* Bound on the number of Session objects constructed in one behaviour.
MaxSessions == 3

\* The two logical callers of the one Agent.
Callers == {1, 2}

VARIABLES
    instructions,            \* Agent.instructions: a string or a zero-argument callable
    tendencies,              \* Agent.tendencies: None or a tendency mapping
    communication_protocol,  \* the gateway bound in __init__: (model, personality)
    active_session,          \* Agent.active_session
    sessions,                \* Agent._sessions: whether the attribute is bound, and the dict
    created,                 \* number of Session objects constructed so far
    built,                   \* history: every _build_personality call, inputs and result
    call                     \* per caller: the call in progress, or the last one completed

vars == <<instructions, tendencies, communication_protocol, active_session,
          sessions, created, built, call>>

-----------------------------------------------------------------------------
(* Python values *)

None == [kind |-> "None"]
True == [kind |-> "bool", v |-> TRUE]
False == [kind |-> "bool", v |-> FALSE]
Str(s) == [kind |-> "str", s |-> s]

\* Python truthiness of the values that reach an `if`.
Truthy(v) ==
    CASE v.kind = "None" -> FALSE
      [] v.kind = "str" -> v.s # ""
      [] v.kind = "bool" -> v.v
      [] OTHER -> TRUE

\* How a call ends: a returned value or a raised exception.
Return(v) == [kind |-> "return", value |-> v]
Raise(e) == [kind |-> "raise", exc |-> e]

\* dict operations on functions
EmptyDict == [k \in {} |-> None]
DictSet(d, k, v) == [x \in DOMAIN d \cup {k} |-> IF x = k THEN v ELSE d[x]]
DictGet(d, k) == IF k \in DOMAIN d THEN d[k] ELSE None
DictMerge(a, b) == [k \in DOMAIN a \cup DOMAIN b |-> IF k \in DOMAIN b THEN b[k] ELSE a[k]]

-----------------------------------------------------------------------------
(* Agent fields given at construction *)

name == "Luminaria"
model == "llama3.2"

\* instructions: a static string, a callable that always produces the same
\* text, or a callable whose text depends on when it is invoked (a callable
\* is modelled by the set of texts one invocation may produce).
InstructionChoices ==
    { [kind |-> "str", text |-> <<"You are a helpful assistant agent.">>],
      [kind |-> "callable", outs |-> {<<"You are a scout.">>}],
      [kind |-> "callable", outs |-> {<<"Today is Monday.">>, <<"Today is Tuesday.">>}] }

TendencyChoices == { None, [kind |-> "Tendencies", humor |-> "0.5"] }

\* str(self.tendencies)
StrTendencies(t) == IF t = None THEN "None" ELSE "humor=0.5"

-----------------------------------------------------------------------------
(* Personality Builder *)

\* callable(self.instructions)
callable(i) == i.kind = "callable"

\* base_instructions: the texts `self.instructions() if callable(...) else
\* self.instructions` may evaluate to.
base_instructions(i) == IF callable(i) THEN i.outs ELSE {i.text}

tendencies_description(t) ==
    <<"You're Tendecies are: ", StrTendencies(t),
      ", ranking system for tendecies is from 0 (lowest) to 1 (highest)">>

\* The returned f-string, for one evaluation `base` of the instructions.
_build_personality(base, t) == base \o <<" : ">> \o tendencies_description(t)

\* One entry of the history of _build_personality calls.
BuiltEntry(i, t, result, unchanged) ==
    [instructions |-> i, tendencies |-> t, result |-> result, unchanged |-> unchanged]

-----------------------------------------------------------------------------
(* Collaborators whose code is outside the source tree *)

\* Session(agent_id=...): a new object with a session_id no other has.
Session(agent_id, n) == [kind |-> "Session", session_id |-> n, agent_id |-> agent_id]

\* CommunicationProtocol.send_prompt: answers, or fails with its typed error.
GatewayOutcomes == {"response", "CommunicationsProtocolError"}
Response(message, sender, format) ==
    [kind |-> "Response", message |-> message, sender |-> sender, format |-> format]
send_prompt(message, sender, format, gw) ==
    IF gw = "response" THEN Return(Response(message, sender, format)) ELSE Raise(gw)

-----------------------------------------------------------------------------
(* Call records *)

Idle == [op |-> "none", pc |-> "idle", args |-> None, sent |-> <<>>, yields |-> <<>>,
         execs |-> 0, outcome |-> "none", value |-> None,
         before |-> None, after |-> None]

\* A call that has run to completion.
Completed(op, args, sent, yields, execs, res, before, after) ==
    [op |-> op, pc |-> "idle", args |-> args, sent |-> sent, yields |-> yields,
     execs |-> execs,
     outcome |-> IF res.kind = "return" THEN "return" ELSE res.exc,
     value |-> IF res.kind = "return" THEN res.value ELSE None,
     before |-> before, after |-> after]

\* A call suspended at the await or yield named pc.
Suspended(op, pc, args, sent, yields, execs) ==
    [op |-> op, pc |-> pc, args |-> args, sent |-> sent, yields |-> yields,
     execs |-> execs, outcome |-> "none", value |-> None,
     before |-> None, after |-> None]

IsDone(c, op) == call[c].op = op /\ call[c].pc = "idle"

-----------------------------------------------------------------------------
(* Agent.__init__ *)

\* Attributes follow Python's attribute rules: an assignment binds the
\* attribute, and reading one that was never bound raises AttributeError.

\* __init__ opening a session of its own instead of leaving none active.
InitialActiveSessionEager == Session(name, 0)

\* self.active_session = None
InitialActiveSession == None

\* __init__ binds communication_protocol and active_session and nothing else:
\* no statement of the class binds self._sessions.
InitialSessions == [bound |-> FALSE, items |-> EmptyDict]

Init ==
    /\ instructions \in InstructionChoices
    /\ tendencies \in TendencyChoices
    /\ \E base \in base_instructions(instructions) :
         /\ communication_protocol =
               [model |-> model, personality |-> _build_personality(base, tendencies)]
         /\ built = {BuiltEntry(instructions, tendencies,
                                _build_personality(base, tendencies), TRUE)}
    /\ active_session = InitialActiveSession
    /\ sessions = InitialSessions
    /\ created = 0
    /\ call = [c \in Callers |-> Idle]

-----------------------------------------------------------------------------
(* Session Manager *)

\* start_session with `self.active_session = session` moved above the
\* registration.
start_session_activate_first(c) ==
    /\ call[c].pc = "idle"
    /\ created < MaxSessions
    /\ LET session == Session(name, created + 1)
       IN /\ created' = created + 1
          /\ active_session' = session
          /\ IF sessions.bound
             THEN /\ sessions' = [sessions EXCEPT
                                    !.items = DictSet(@, session.session_id, session)]
                  /\ call' = [call EXCEPT ![c] =
                        Completed("start_session", None, <<>>, <<>>, 0, Return(session),
                                  active_session, session)]
             ELSE /\ UNCHANGED sessions
                  /\ call' = [call EXCEPT ![c] =
                        Completed("start_session", None, <<>>, <<>>, 0,
                                  Raise("AttributeError"), active_session, session)]
    /\ UNCHANGED <<instructions, tendencies, communication_protocol, built>>

start_session(c) ==
    /\ call[c].pc = "idle"
    /\ created < MaxSessions
    /\ LET session == Session(name, created + 1)
       IN /\ created' = created + 1
          /\ IF sessions.bound
             THEN /\ sessions' = [sessions EXCEPT
                                    !.items = DictSet(@, session.session_id, session)]
                  /\ active_session' = session
                  /\ call' = [call EXCEPT ![c] =
                        Completed("start_session", None, <<>>, <<>>, 0, Return(session),
                                  active_session, session)]
             ELSE \* self._sessions is not bound: the subscript assignment raises
                  /\ UNCHANGED <<sessions, active_session>>
                  /\ call' = [call EXCEPT ![c] =
                        Completed("start_session", None, <<>>, <<>>, 0,
                                  Raise("AttributeError"), active_session, active_session)]
    /\ UNCHANGED <<instructions, tendencies, communication_protocol, built>>

\* The ids a caller may ask for: 0 is an id no Session ever had.
SessionIds == 0..MaxSessions

load_session(c, session_id) ==
    /\ call[c].pc = "idle"
    /\ LET known == sessions.bound /\ session_id \in DOMAIN sessions.items
           args == [session_id |-> session_id, known |-> known,
                    started |-> session_id \in 1..created]
       IN IF sessions.bound
          THEN LET session == DictGet(sessions.items, session_id)
               IN /\ active_session' = IF Truthy(session) THEN session ELSE active_session
                  /\ call' = [call EXCEPT ![c] =
                        Completed("load_session", args, <<>>, <<>>, 0, Return(session),
                                  active_session, active_session')]
          ELSE \* self._sessions is not bound: the attribute lookup raises
               /\ UNCHANGED active_session
               /\ call' = [call EXCEPT ![c] =
                     Completed("load_session", args, <<>>, <<>>, 0,
                               Raise("AttributeError"), active_session, active_session)]
    /\ UNCHANGED <<instructions, tendencies, communication_protocol, sessions,
                   created, built>>

-----------------------------------------------------------------------------
(* Personality Builder: a direct call of _build_personality *)

\* _build_personality keeping its result in self.instructions.
build_personality_call_storing(c) ==
    /\ call[c].pc = "idle"
    /\ \E base \in base_instructions(instructions) :
         LET result == _build_personality(base, tendencies)
         IN /\ instructions' = [kind |-> "str", text |-> result]
            /\ UNCHANGED <<tendencies, communication_protocol,
                           active_session, sessions, created>>
            /\ built' = built \cup
                 {BuiltEntry(instructions, tendencies, result,
                             /\ instructions' = instructions
                             /\ tendencies' = tendencies
                             /\ communication_protocol' = communication_protocol
                             /\ active_session' = active_session
                             /\ sessions' = sessions)}
            /\ call' = [call EXCEPT ![c] =
                  Completed("_build_personality", None, <<>>, <<>>, 0,
                            Return([kind |-> "text", s |-> result]),
                            active_session, active_session)]

build_personality_call(c) ==
    /\ call[c].pc = "idle"
    /\ \E base \in base_instructions(instructions) :
         LET result == _build_personality(base, tendencies)
         IN /\ UNCHANGED <<instructions, tendencies, communication_protocol,
                           active_session, sessions, created>>
            /\ built' = built \cup
                 {BuiltEntry(instructions, tendencies, result,
                             /\ instructions' = instructions
                             /\ tendencies' = tendencies
                             /\ communication_protocol' = communication_protocol
                             /\ active_session' = active_session
                             /\ sessions' = sessions)}
            /\ call' = [call EXCEPT ![c] =
                  Completed("_build_personality", None, <<>>, <<>>, 0,
                            Return([kind |-> "text", s |-> result]),
                            active_session, active_session)]

-----------------------------------------------------------------------------
(* Communication: Agent.prompt *)

Messages == {"What can you do?", "Who plays tonight?"}
Senders == {"user", "crew"}
Formats == {None, [kind |-> "dict", schema |-> "json"]}

\* One finished send_prompt of a call: what was sent and how the gateway ended it.
Sent(message, sender, format, gw) ==
    [message |-> message, sender |-> sender, format |-> format, outcome |-> gw]

\* prompt without its try/except.
prompt_unguarded(message, sender, format, gw) == send_prompt(message, sender, format, gw)

\* prompt, given how the gateway ends the awaited send_prompt.
prompt(message, sender, format, gw) ==
    LET res == send_prompt(message, sender, format, gw)
    IN IF res.kind = "return" THEN res
       ELSE IF res.exc = "CommunicationsProtocolError"
            THEN Return(None)   \* the handler prints and falls off the end
            ELSE res

prompt_call(c, message, sender, format) ==
    /\ call[c].pc = "idle"
    /\ call' = [call EXCEPT ![c] =
          Suspended("prompt", "prompt:send_prompt",
                    [message |-> message, sender |-> sender, format |-> format],
                    <<>>, <<>>, 0)]
    /\ UNCHANGED <<instructions, tendencies, communication_protocol, active_session,
                   sessions, created, built>>

prompt_resume(c, gw) ==
    /\ call[c].pc = "prompt:send_prompt"
    /\ LET a == call[c].args
       IN call' = [call EXCEPT ![c] =
             Completed("prompt", a, <<Sent(a.message, a.sender, a.format, gw)>>, <<>>, 0,
                       prompt(a.message, a.sender, a.format, gw),
                       active_session, active_session)]
    /\ UNCHANGED <<instructions, tendencies, communication_protocol, active_session,
                   sessions, created, built>>

-----------------------------------------------------------------------------
(* reinforce_personality *)

reminder_str(personlity) ==
    <<"Reminder, this is your true self, always respond according to this personality and do not go outside the realms of what you are. ">>
    \o personlity

\* The try block around `await self.prompt(...)`, given how prompt ended.
reinforce_result(res) == IF res.kind = "return" THEN Return(True) ELSE Return(False)

reinforce_personality_call(c) ==
    /\ call[c].pc = "idle"
    /\ \E base \in base_instructions(instructions) :
         LET personlity == _build_personality(base, tendencies)
         IN /\ built' = built \cup {BuiltEntry(instructions, tendencies, personlity, TRUE)}
            /\ call' = [call EXCEPT ![c] =
                  Suspended("reinforce_personality", "reinforce:prompt",
                            [message |-> reminder_str(personlity), sender |-> "creator",
                             format |-> None],
                            <<>>, <<>>, 0)]
    /\ UNCHANGED <<instructions, tendencies, communication_protocol, active_session,
                   sessions, created>>

reinforce_personality_resume(c, gw) ==
    /\ call[c].pc = "reinforce:prompt"
    /\ LET a == call[c].args
       IN call' = [call EXCEPT ![c] =
             Completed("reinforce_personality", a,
                       <<Sent(a.message, a.sender, a.format, gw)>>, <<>>, 0,
                       reinforce_result(prompt(a.message, a.sender, a.format, gw)),
                       active_session, active_session)]
    /\ UNCHANGED <<instructions, tendencies, communication_protocol, active_session,
                   sessions, created, built>>

-----------------------------------------------------------------------------
(* Task execution: the async generator run *)

\* How the subclass's execute_task ends: with a result, or by raising.
TaskOutcomes == {"result", "ExecutionError"}
TaskResult == [kind |-> "TaskResult"]

\* What the caller sends at the first yield: nothing, or a feedback text.
Feedbacks == {None, Str(""), Str("Be more concise.")}

\* The first __anext__: the body runs up to `await self.execute_task(**kwargs)`.
run_call(c) ==
    /\ call[c].pc = "idle"
    /\ call' = [call EXCEPT ![c] =
          Suspended("run", "run:execute_task", [feedback |-> None], <<>>, <<>>, 1)]
    /\ UNCHANGED <<instructions, tendencies, communication_protocol, active_session,
                   sessions, created, built>>

\* execute_task ends; its result is yielded, its exception leaves the generator.
run_execute_task_done(c, t) ==
    /\ call[c].pc = "run:execute_task"
    /\ call' = [call EXCEPT ![c] =
          IF t = "result"
          THEN Suspended("run", "run:yield1", call[c].args, <<>>, <<TaskResult>>,
                         call[c].execs)
          ELSE Completed("run", call[c].args, <<>>, <<>>, call[c].execs, Raise(t),
                         active_session, active_session)]
    /\ UNCHANGED <<instructions, tendencies, communication_protocol, active_session,
                   sessions, created, built>>

\* `if feedback:` decided by `feedback is not None`.
feedback_given_not_none(feedback) == feedback # None

\* `if feedback:`
feedback_given(feedback) == Truthy(feedback)

\* The caller resumes the generator at the first yield.
run_resume(c, feedback) ==
    /\ call[c].pc = "run:yield1"
    /\ call' = [call EXCEPT ![c] =
          IF feedback_given(feedback)
          THEN Suspended("run", "run:prompt", [feedback |-> feedback], <<>>,
                         call[c].yields, call[c].execs)
          ELSE Completed("run", [feedback |-> feedback], <<>>, call[c].yields,
                         call[c].execs, Raise("StopAsyncIteration"),
                         active_session, active_session)]
    /\ UNCHANGED <<instructions, tendencies, communication_protocol, active_session,
                   sessions, created, built>>

\* The awaited prompt(message=feedback, sender="pilot") ends; its result is yielded.
run_prompt_done(c, gw) ==
    /\ call[c].pc = "run:prompt"
    /\ LET fb == call[c].args.feedback.s
           res == prompt(fb, "pilot", None, gw)
           sent == <<Sent(fb, "pilot", None, gw)>>
       IN call' = [call EXCEPT ![c] =
             IF res.kind = "return"
             THEN Suspended("run", "run:yield2", call[c].args, sent,
                            Append(call[c].yields, res.value), call[c].execs)
             ELSE Completed("run", call[c].args, sent, call[c].yields, call[c].execs,
                            res, active_session, active_session)]
    /\ UNCHANGED <<instructions, tendencies, communication_protocol, active_session,
                   sessions, created, built>>

\* The caller resumes at the second yield: the body ends.
run_finish(c) ==
    /\ call[c].pc = "run:yield2"
    /\ call' = [call EXCEPT ![c] =
          Completed("run", call[c].args, call[c].sent, call[c].yields, call[c].execs,
                    Raise("StopAsyncIteration"), active_session, active_session)]
    /\ UNCHANGED <<instructions, tendencies, communication_protocol, active_session,
                   sessions, created, built>>

-----------------------------------------------------------------------------
(* VegasOddsPipeline._fetch *)

base_url == "https://api.the-odds-api.com/v4/"
base_params == [api_key |-> "key"]

Urls == {"sports"}
Methods == {"GET"}
\* The params argument: None, or a dict of query parameters.
ParamChoices == {None, [kind |-> "dict", d |-> [regions |-> "us", markets |-> "h2h"]]}

\* {**self.base_params, **params} if params else {**self.base_params}
merge_params(params) ==
    IF Truthy(params) THEN DictMerge(base_params, params.d) ELSE base_params

\* How the HTTP exchange ends: the request raises, or a response arrives whose
\* body decodes as JSON or does not.
HttpOutcomes ==
    { [kind |-> "raised", exc |-> "ClientConnectionError"],
      [kind |-> "response", status |-> 200, json |-> "decoded"],
      [kind |-> "response", status |-> 200, json |-> "ContentTypeError"],
      [kind |-> "response", status |-> 404, json |-> "decoded"],
      [kind |-> "response", status |-> 500, json |-> "decoded"] }

VegasOddsResponse(response, status_code) ==
    [kind |-> "VegasOddsResponse", response |-> response, status_code |-> status_code]
Body(url) == [status |-> "ok", body |-> url]
ErrorPayload(error) == [status |-> "error", error |-> error]

\* The try block of _fetch, given how the HTTP exchange ends.
_fetch(url, http) ==
    IF http.kind = "raised"
    THEN Return(VegasOddsResponse(ErrorPayload(http.exc), 500))
    ELSE IF http.status = 200
         THEN IF http.json = "decoded"
              THEN Return(VegasOddsResponse(Body(url), 200))
              ELSE Return(VegasOddsResponse(ErrorPayload(http.json), 500))
         ELSE Return(None)   \* no return statement is reached

fetch_call(c, url, method, params) ==
    /\ call[c].pc = "idle"
    /\ call' = [call EXCEPT ![c] =
          Suspended("_fetch", "fetch:request",
                    [url |-> url, method |-> method, params |-> merge_params(params)],
                    <<>>, <<>>, 0)]
    /\ UNCHANGED <<instructions, tendencies, communication_protocol, active_session,
                   sessions, created, built>>

fetch_done(c, http) ==
    /\ call[c].pc = "fetch:request"
    /\ call' = [call EXCEPT ![c] =
          Completed("_fetch", [url |-> call[c].args.url, http |-> http], <<>>, <<>>, 0,
                    _fetch(call[c].args.url, http), active_session, active_session)]
    /\ UNCHANGED <<instructions, tendencies, communication_protocol, active_session,
                   sessions, created, built>>

-----------------------------------------------------------------------------
Next ==
    \E c \in Callers :
        \/ start_session(c)
        \/ \E sid \in SessionIds : load_session(c, sid)
        \/ build_personality_call(c)
        \/ \E m \in Messages, s \in Senders, f \in Formats : prompt_call(c, m, s, f)
        \/ \E gw \in GatewayOutcomes : prompt_resume(c, gw)
        \/ reinforce_personality_call(c)
        \/ \E gw \in GatewayOutcomes : reinforce_personality_resume(c, gw)
        \/ run_call(c)
        \/ \E t \in TaskOutcomes : run_execute_task_done(c, t)
        \/ \E fb \in Feedbacks : run_resume(c, fb)
        \/ \E gw \in GatewayOutcomes : run_prompt_done(c, gw)
        \/ run_finish(c)
        \/ \E u \in Urls, m \in Methods, p \in ParamChoices : fetch_call(c, u, m, p)
        \/ \E h \in HttpOutcomes : fetch_done(c, h)

Spec == Init /\ [][Next]_vars

-----------------------------------------------------------------------------
(* Properties *)

\* C1: every completed start_session returned, without raising, a new Session
\* owned by the Agent's name, registered under its session_id and made active.
C1_StartSessionSucceeds ==
    \A c \in Callers :
        IsDone(c, "start_session") =>
            /\ call[c].outcome = "return"
            /\ call[c].value.kind = "Session"
            /\ call[c].value.agent_id = name
            /\ call[c].after = call[c].value
            /\ sessions.bound
            /\ DictGet(sessions.items, call[c].value.session_id) = call[c].value

\* C2: every completed load_session of an id absent from the registry returned
\* None without raising and left active_session as it was before the call.
C2_LoadMissReturnsNone ==
    \A c \in Callers :
        (IsDone(c, "load_session") /\ ~call[c].args.known) =>
            /\ call[c].outcome = "return"
            /\ call[c].value = None
            /\ call[c].after = call[c].before

\* C3: every completed reinforce_personality returned true when the gateway
\* delivered the reminder and false when the gateway's send_prompt failed.
C3_ReinforceReportsFailure ==
    \A c \in Callers :
        IsDone(c, "reinforce_personality") =>
            /\ call[c].outcome = "return"
            /\ call[c].value =
                 IF call[c].sent[1].outcome = "response" THEN True ELSE False

\* What the one prompt of a run must have been, and what it must have yielded.
RunSecondResult(r) ==
    /\ Len(r.yields) = 2
    /\ Len(r.sent) = 1
    /\ r.sent[1].message = r.args.feedback.s
    /\ r.sent[1].sender = "pilot"
    /\ r.yields[2] = IF r.sent[1].outcome = "response"
                     THEN Response(r.args.feedback.s, "pilot", None)
                     ELSE None

RunFirstResultOnly(r) == Len(r.yields) = 1 /\ r.sent = <<>>

C5_PromptDegrades ==
    \A c \in Callers :
        (IsDone(c, "prompt") /\ call[c].sent[1].outcome # "response") =>
            /\ call[c].outcome = "return"
            /\ call[c].value = None

\* Two prompts with different senders and formats both ended on a failed gateway.
C5_Witness ==
    /\ IsDone(1, "prompt") /\ call[1].sent[1].outcome = "CommunicationsProtocolError"
    /\ IsDone(2, "prompt") /\ call[2].sent[1].outcome = "CommunicationsProtocolError"
    /\ call[1].args.sender # call[2].args.sender
    /\ call[1].args.format # call[2].args.format
    /\ call[1].args.message # call[2].args.message

\* C6: active_session is None or a Session the registry holds under its own
\* session_id, in every state of every interleaving of the two callers.
C6_ActiveSessionRegistered ==
    \/ active_session = None
    \/ /\ sessions.bound
       /\ active_session.session_id \in DOMAIN sessions.items
       /\ sessions.items[active_session.session_id] = active_session

\* Both callers have called start_session.
C6_Witness ==
    /\ IsDone(1, "start_session")
    /\ IsDone(2, "start_session")
    /\ created >= 2

\* A step of a start_session, or of a load_session that found its id.
ActivatingStep ==
    \E c \in Callers :
        /\ call'[c] # call[c]
        /\ call'[c].pc = "idle"
        /\ \/ call'[c].op = "start_session"
           \/ call'[c].op = "load_session" /\ call'[c].args.known

\* C7: active_session is one value, None or a Session; it is None as long as no
\* start_session has been called; and only a step of start_session or of a
\* load_session that hits changes it from None.
C7_NoneUntilActivated ==
    /\ [](active_session = None \/ active_session.kind = "Session")
    /\ [](created = 0 => active_session = None)
    /\ [][(active_session = None /\ active_session' # None) => ActivatingStep]_vars

\* Before any start_session, a run and a load_session miss have completed and
\* no session is active.
C7_Witness ==
    /\ created = 0
    /\ active_session = None
    /\ IsDone(1, "run")
    /\ IsDone(2, "load_session")

\* C8: every completed load_session of the id of a Session that an earlier
\* start_session created returned that Session and made it active.
C8_RoundTrip ==
    \A c \in Callers :
        (IsDone(c, "load_session") /\ call[c].args.started) =>
            /\ call[c].outcome = "return"
            /\ call[c].value = Session(name, call[c].args.session_id)
            /\ call[c].after = call[c].value

FixedText(i) == Cardinality(base_instructions(i)) = 1

C10_FetchAlwaysResponds ==
    \A c \in Callers :
        IsDone(c, "_fetch") =>
            /\ call[c].outcome = "return"
            /\ call[c].value.kind = "VegasOddsResponse"
            /\ LET http == call[c].args.http
               IN IF http.kind = "response" /\ http.status = 200 /\ http.json = "decoded"
                  THEN /\ call[c].value.status_code = 200
                       /\ call[c].value.response = Body(call[c].args.url)
                  ELSE /\ call[c].value.status_code = 500
                       /\ call[c].value.response.status = "error"

====
